---------------------------- MODULE Spec2Model ----------------------------
(***************************************************************************)
(* Model of the civic complaint classification service:                    *)
(*   src/classifier.py  sanitize_input, call_ollama, extract_json,         *)
(*                      override_department, override_priority,            *)
(*                      apply_overrides, classify                          *)
(*   src/validator.py   ClassificationResponse (pydantic v2 model)         *)
(*   src/main.py        the HTTP handlers health and classify_complaint    *)
(*                                                                         *)
(* Texts are TLA+ strings handled character by character (Len, SubSeq,     *)
(* Head, Tail and \o work on strings in TLC).  Floats are exact decimal    *)
(* fractions [n, d] (n/d, d > 0): every float the model reads is a short   *)
(* decimal literal, and rounding to a double is monotone, so comparisons   *)
(* of the fractions agree with comparisons of the doubles.                 *)
(***************************************************************************)
EXTENDS Integers, Sequences, FiniteSets, TLC

VARIABLES
    pc,           \* position of the request in classify / the handler
    text,         \* the text argument of classify
    clean_text,   \* classify's local clean_text
    raw_output,   \* classify's local raw_output (the gateway's completion)
    json_data,    \* classify's local json_data
    validated,    \* classify's local validated (a ClassificationResponse)
    before,       \* the ClassificationResponse handed to the last apply_overrides
    result,       \* the value classify returns
    error,        \* the exception caught by classify's except clause, or NoError
    log,          \* lines printed while serving the request
    response      \* body of the last HTTP response

vars == <<pc, text, clean_text, raw_output, json_data, validated, before,
          result, error, log, response>>

-----------------------------------------------------------------------------
(* Characters and strings *)

Char(s, i) == SubSeq(s, i, i)

Min(a, b) == IF a <= b THEN a ELSE b

\* Python's s[a-1:b]: positions a..b of s, as far as s reaches
Slice(s, a, b) == IF a > Min(b, Len(s)) THEN "" ELSE SubSeq(s, a, Min(b, Len(s)))

Digits == "0123456789"

UpperChars == "ABCDEFGHIJKLMNOPQRSTUVWXYZ"

LowerChars == "abcdefghijklmnopqrstuvwxyz"

\* position of character c in string s, 0 when absent (str.find + 1)
RECURSIVE IndexOf(_, _, _)
IndexOf(s, c, i) ==
    IF i > Len(s) THEN 0
    ELSE IF Char(s, i) = c THEN i
    ELSE IndexOf(s, c, i + 1)

DigitChars == {Char(Digits, k) : k \in 1..Len(Digits)}

IsDigit(c) == c \in DigitChars

DigitVal(c) == IndexOf(Digits, c, 1) - 1

\* str.isspace on the model's alphabet; the class of regex \s is the same
IsSpace(c) == c \in {" ", "\t", "\n", "\r", "\f"}

\* the lowercase letter of each uppercase letter
Lowered ==
    [c \in {Char(UpperChars, k) : k \in 1..Len(UpperChars)} |->
        Char(LowerChars, IndexOf(UpperChars, c, 1))]

LowerChar(c) == IF c \in DOMAIN Lowered THEN Lowered[c] ELSE c

\* str.lower
RECURSIVE lower(_)
lower(s) == IF s = "" THEN "" ELSE LowerChar(Head(s)) \o lower(Tail(s))

\* Python's  word in s
Contains(s, word) ==
    \E i \in 1..(Len(s) - Len(word) + 1) : SubSeq(s, i, i + Len(word) - 1) = word

\* Python's  any(word in s for word in words)
AnyWordIn(s, words) == \E k \in 1..Len(words) : Contains(s, words[k])

RECURSIVE lstrip(_)
lstrip(s) == IF s /= "" /\ IsSpace(Head(s)) THEN lstrip(Tail(s)) ELSE s

RECURSIVE rstrip(_)
rstrip(s) ==
    IF s /= "" /\ IsSpace(Char(s, Len(s)))
    THEN rstrip(SubSeq(s, 1, Len(s) - 1))
    ELSE s

\* str.strip
strip(s) == rstrip(lstrip(s))

-----------------------------------------------------------------------------
(* Input sanitization *)

MAX_CHARS == 1000

\* the cut made before the blanks are dropped
sanitize_input_cut_first(t) == strip(Slice(t, 1, MAX_CHARS))

\* text.strip()[:1000]
sanitize_input(t) == Slice(strip(t), 1, MAX_CHARS)

-----------------------------------------------------------------------------
(* Department override rules *)

ELECTRICITY_WORDS ==
    <<"street light", "streetlight", "power line",
      "electricity", "transformer", "electric pole">>

SANITATION_WORDS ==
    <<"garbage", "waste", "drain", "sewage", "overflow", "trash">>

WATER_WORDS ==
    <<"water supply", "pipeline", "tap water", "water leakage", "no water">>

ROADS_WORDS == <<"road damage", "pothole", "road crack">>

PUBLIC_SAFETY_WORDS == <<"fight", "harassment", "theft", "unsafe", "crime">>

\* the keyword groups, tried on the lowercased text in this order
department_of(low, predicted) ==
    IF AnyWordIn(low, ELECTRICITY_WORDS) THEN "ELECTRICITY"
    ELSE IF AnyWordIn(low, SANITATION_WORDS) THEN "SANITATION"
    ELSE IF AnyWordIn(low, WATER_WORDS) THEN "WATER"
    ELSE IF AnyWordIn(low, ROADS_WORDS) THEN "ROADS"
    ELSE IF AnyWordIn(low, PUBLIC_SAFETY_WORDS) THEN "PUBLIC_SAFETY"
    ELSE predicted

\* the sanitation group tried before the electricity group
override_department_sanitation_first(t, predicted) ==
    IF AnyWordIn(lower(t), SANITATION_WORDS) THEN "SANITATION"
    ELSE department_of(lower(t), predicted)

override_department(t, predicted) == department_of(lower(t), predicted)

-----------------------------------------------------------------------------
(* Priority override rules *)

HAZARD_WORDS == <<"electric shock", "live wire", "fire", "accident", "collapse">>

NoMatch == [found |-> FALSE, start |-> 0, days |-> 0]

\* end of the run of characters satisfying \d starting at i (i - 1 when empty)
RECURSIVE DigitRunEnd(_, _)
DigitRunEnd(s, i) ==
    IF i <= Len(s) /\ IsDigit(Char(s, i)) THEN DigitRunEnd(s, i + 1) ELSE i - 1

\* end of the run of characters satisfying \s starting at i (i - 1 when empty)
RECURSIVE SpaceRunEnd(_, _)
SpaceRunEnd(s, i) ==
    IF i <= Len(s) /\ IsSpace(Char(s, i)) THEN SpaceRunEnd(s, i + 1) ELSE i - 1

\* int() of a string of decimal digits
RECURSIVE int(_)
int(ds) ==
    IF ds = "" THEN 0
    ELSE 10 * int(SubSeq(ds, 1, Len(ds) - 1)) + DigitVal(Char(ds, Len(ds)))

\* The pattern (\d+)\s*day tried at position i, \d+ having run to de.  \d+ and
\* \s* are greedy; giving back a digit or a blank never helps, since the
\* character given back is then read by \s* or by the literal d, so the greedy
\* attempt decides the match.
match_days_from(s, i, de, se) ==
    IF de >= i /\ Slice(s, se + 1, se + 3) = "day"
    THEN [found |-> TRUE, start |-> i, days |-> int(Slice(s, i, de))]
    ELSE NoMatch

match_days_at(s, i) ==
    match_days_from(s, i, DigitRunEnd(s, i), SpaceRunEnd(s, DigitRunEnd(s, i) + 1))

\* the last mention instead of the first
RECURSIVE search_days_last(_, _)
later_or(s, i, later) == IF later.found THEN later ELSE match_days_at(s, i)

search_days_last(s, i) ==
    IF i > Len(s) THEN NoMatch ELSE later_or(s, i, search_days_last(s, i + 1))

\* re.search(r'(\d+)\s*day', s): the match at the leftmost position that has one
RECURSIVE search_days(_, _)
search_days(s, i) ==
    IF i > Len(s) THEN NoMatch
    ELSE IF match_days_at(s, i).found THEN match_days_at(s, i)
    ELSE search_days(s, i + 1)

DAYS_THRESHOLD == 4

\* if match: days = int(match.group(1)); if days >= 4: ...
days_reached(match) == match.found /\ match.days >= DAYS_THRESHOLD

\* any mention of 4 days or more counts, not the first one only
override_priority_any_mention(t, predicted) ==
    IF AnyWordIn(lower(t), HAZARD_WORDS) THEN "HIGH"
    ELSE IF \E i \in 1..Len(t) : days_reached(match_days_at(lower(t), i)) THEN "HIGH"
    ELSE predicted

\* the priority raised by one level instead of set to HIGH
override_priority_bump(t, predicted) ==
    IF AnyWordIn(lower(t), HAZARD_WORDS) \/ days_reached(search_days(lower(t), 1))
    THEN (IF predicted = "LOW" THEN "MEDIUM" ELSE "HIGH")
    ELSE predicted

override_priority(t, predicted) ==
    IF AnyWordIn(lower(t), HAZARD_WORDS) THEN "HIGH"
    ELSE IF days_reached(search_days(lower(t), 1)) THEN "HIGH"
    ELSE predicted

-----------------------------------------------------------------------------
(* Apply all overrides *)

\* the lines apply_overrides prints and the object it returns
overridden(v, dep, pri) ==
    [val   |-> [v EXCEPT !.department = dep, !.priority = pri],
     lines |-> (IF v.department /= dep
                THEN <<[line |-> "Department changed", old |-> v.department, new |-> dep]>>
                ELSE <<>>)
               \o
               (IF v.priority /= pri
                THEN <<[line |-> "Priority changed", old |-> v.priority, new |-> pri]>>
                ELSE <<>>)]

apply_overrides(t, v) ==
    overridden(v, override_department(t, v.department),
                  override_priority(t, v.priority))

-----------------------------------------------------------------------------
(* JSON values, as json.loads builds them *)

JNull == [t |-> "null"]

JBool(b) == [t |-> "bool", b |-> b]

JStr(s) == [t |-> "str", s |-> s]

\* An int (isint) or a float with the value n / d, d > 0.
JNum(isint, n, d) == [t |-> "num", isint |-> isint, n |-> n, d |-> d]

\* float('nan'), float('inf'), float('-inf'): kind is "nan", "inf" or "-inf"
JNonFinite(kind) == [t |-> "nonfinite", kind |-> kind]

\* a dict: a function from its keys to their values
JObj(f) == [t |-> "obj", f |-> f]

JArr(items) == [t |-> "arr", items |-> items]

EmptyDict == [k \in {} |-> JNull]

\* d[key] = v on a dict: a repeated key keeps the last value
DictSet(f, key, v) ==
    [k \in (DOMAIN f) \cup {key} |-> IF k = key THEN v ELSE f[k]]

RECURSIVE Pow10(_)
Pow10(k) == IF k = 0 THEN 1 ELSE 10 * Pow10(k - 1)

-----------------------------------------------------------------------------
(* json.loads: json.decoder and json.scanner of the standard library *)

Fail == [ok |-> FALSE, val |-> JNull, pos |-> 0]

Ok(v, next) == [ok |-> TRUE, val |-> v, pos |-> next]

\* WHITESPACE = [ \t\n\r]* matched at i: the first position after the run
RECURSIVE SkipWs(_, _)
SkipWs(s, i) ==
    IF i <= Len(s) /\ Char(s, i) \in {" ", "\t", "\n", "\r"}
    THEN SkipWs(s, i + 1)
    ELSE i

StartsWith(s, i, lit) == Slice(s, i, i + Len(lit) - 1) = lit

\* characters below 0x20, refused inside a string in strict mode
IsControl(c) == c \in {"\t", "\n", "\r", "\f"}

\* BACKSLASH of json.decoder; \uXXXX and \b have no TLA+ counterpart and are
\* treated as an invalid escape (the raw texts of this model hold no backslash)
Unescape(c) ==
    CASE c = "\"" -> "\""
      [] c = "\\" -> "\\"
      [] c = "/"  -> "/"
      [] c = "f"  -> "\f"
      [] c = "n"  -> "\n"
      [] c = "r"  -> "\r"
      [] c = "t"  -> "\t"
      [] OTHER    -> ""

\* scanstring(s, i): i is the position after the opening quote
RECURSIVE scanstring(_, _, _), scanstring_char(_, _, _, _)
scanstring(s, i, acc) ==
    IF i > Len(s) THEN Fail                       \* unterminated string
    ELSE scanstring_char(s, i, acc, Char(s, i))

scanstring_char(s, i, acc, c) ==
    IF c = "\"" THEN Ok(acc, i + 1)
    ELSE IF IsControl(c) THEN Fail                \* invalid control character
    ELSE IF c = "\\"
         THEN IF i + 1 > Len(s) \/ Unescape(Char(s, i + 1)) = ""
              THEN Fail
              ELSE scanstring(s, i + 2, acc \o Unescape(Char(s, i + 1)))
    ELSE scanstring(s, i + 1, acc \o c)

\* NUMBER_RE = (-?(?:0|[1-9]\d*))(\.\d+)?([eE][-+]?\d+)? matched at i.  The
\* integer part is s[i0..ie], the fraction s[ie+2..fe] (fe = ie without one),
\* the exponent's digits s[x1..xe] (xe = fe without one).
number_float(mant, fden, expneg, ex) ==
    IF expneg THEN JNum(FALSE, mant, fden * Pow10(ex))
    ELSE JNum(FALSE, mant * Pow10(ex), fden)

number_value(s, i, i0, ie, fe, x1, xe) ==
    IF fe = ie /\ xe = fe
    THEN Ok(JNum(TRUE, (IF i0 > i THEN -1 ELSE 1) * int(Slice(s, i0, ie)), 1), ie + 1)
    ELSE Ok(number_float((IF i0 > i THEN -1 ELSE 1)
                            * int(Slice(s, i0, ie) \o Slice(s, ie + 2, fe)),
                         Pow10(IF fe > ie THEN fe - ie - 1 ELSE 0),
                         xe > fe /\ Char(s, x1 - 1) = "-",
                         IF xe > fe THEN int(Slice(s, x1, xe)) ELSE 0),
            xe + 1)

number_exponent(s, i, i0, ie, fe, x1) ==
    number_value(s, i, i0, ie, fe, x1,
                 IF x1 > 0 /\ DigitRunEnd(s, x1) >= x1 THEN DigitRunEnd(s, x1) ELSE fe)

number_fraction(s, i, i0, ie, fe) ==
    number_exponent(s, i, i0, ie, fe,
                    IF Slice(s, fe + 1, fe + 1) \in {"e", "E"}
                    THEN (IF Slice(s, fe + 2, fe + 2) \in {"-", "+"}
                          THEN fe + 3 ELSE fe + 2)
                    ELSE 0)

number_integer(s, i, i0, ie) ==
    IF ie < i0 THEN Fail
    ELSE number_fraction(s, i, i0, ie,
                         IF Slice(s, ie + 1, ie + 1) = "." /\ DigitRunEnd(s, ie + 2) >= ie + 2
                         THEN DigitRunEnd(s, ie + 2) ELSE ie)

number_sign(s, i, i0) ==
    number_integer(s, i, i0,
                   IF Slice(s, i0, i0) = "0" THEN i0 ELSE DigitRunEnd(s, i0))

match_number(s, i) ==
    number_sign(s, i, IF Slice(s, i, i) = "-" THEN i + 1 ELSE i)

RECURSIVE scan_once(_, _), JSONObject(_, _, _), JSONArray(_, _, _)
RECURSIVE object_colon(_, _, _), object_value(_, _, _, _), object_member(_, _, _, _)
RECURSIVE object_next(_, _, _), object_key(_, _, _), array_next(_, _, _)

scan_string(r) == IF r.ok THEN Ok(JStr(r.val), r.pos) ELSE Fail

\* the branches of _scan_once after the number pattern did not match
scan_constant(s, i, c) ==
    IF c = "N" /\ StartsWith(s, i, "NaN") THEN Ok(JNonFinite("nan"), i + 3)
    ELSE IF c = "I" /\ StartsWith(s, i, "Infinity") THEN Ok(JNonFinite("inf"), i + 8)
    ELSE IF c = "-" /\ StartsWith(s, i, "-Infinity") THEN Ok(JNonFinite("-inf"), i + 9)
    ELSE Fail                      \* StopIteration: expecting value

scan_number(s, i, c, m) == IF m.ok THEN m ELSE scan_constant(s, i, c)

\* JSONObject((s, i)): i is the position after the {, j the first non-blank
object_open(s, j) ==
    IF Slice(s, j, j) = "}" THEN Ok(JObj(EmptyDict), j + 1)
    ELSE IF Slice(s, j, j) = "\"" THEN JSONObject(s, j + 1, EmptyDict)
    ELSE Fail                      \* expecting property name

\* JSONArray((s, i)): i is the position after the [, j the first non-blank
array_open(s, j) ==
    IF Slice(s, j, j) = "]" THEN Ok(JArr(<<>>), j + 1)
    ELSE JSONArray(s, j, <<>>)

scan_char(s, i, c) ==
    IF c = "\"" THEN scan_string(scanstring(s, i + 1, ""))
    ELSE IF c = "{" THEN object_open(s, SkipWs(s, i + 1))
    ELSE IF c = "[" THEN array_open(s, SkipWs(s, i + 1))
    ELSE IF c = "n" /\ StartsWith(s, i, "null") THEN Ok(JNull, i + 4)
    ELSE IF c = "t" /\ StartsWith(s, i, "true") THEN Ok(JBool(TRUE), i + 4)
    ELSE IF c = "f" /\ StartsWith(s, i, "false") THEN Ok(JBool(FALSE), i + 5)
    ELSE scan_number(s, i, c, match_number(s, i))

\* py_make_scanner._scan_once
scan_once(s, i) == IF i > Len(s) THEN Fail ELSE scan_char(s, i, Char(s, i))

\* JSONObject's loop; i is the position after the opening quote of a key
JSONObject(s, i, pairs) == object_colon(s, pairs, scanstring(s, i, ""))

object_colon(s, pairs, key) ==
    IF ~key.ok THEN Fail
    ELSE object_value(s, pairs, key.val, SkipWs(s, key.pos))

object_value(s, pairs, k, colon) ==
    IF Slice(s, colon, colon) /= ":" THEN Fail          \* expecting ':'
    ELSE object_member(s, pairs, k, scan_once(s, SkipWs(s, colon + 1)))

object_member(s, pairs, k, value) ==
    IF ~value.ok THEN Fail
    ELSE object_next(s, DictSet(pairs, k, value.val), SkipWs(s, value.pos))

object_next(s, pairs, e) ==
    IF Slice(s, e, e) = "}" THEN Ok(JObj(pairs), e + 1)
    ELSE IF Slice(s, e, e) /= "," THEN Fail             \* expecting ','
    ELSE object_key(s, pairs, SkipWs(s, e + 1))

object_key(s, pairs, q) ==
    IF Slice(s, q, q) /= "\"" THEN Fail                 \* expecting property name
    ELSE JSONObject(s, q + 1, pairs)

\* JSONArray's loop; i is the position of the next element
JSONArray(s, i, items) == array_next(s, items, scan_once(s, i))

array_item(s, items, e) ==
    IF Slice(s, e, e) = "]" THEN Ok(JArr(items), e + 1)
    ELSE IF Slice(s, e, e) /= "," THEN Fail             \* expecting ','
    ELSE JSONArray(s, SkipWs(s, e + 1), items)

array_next(s, items, value) ==
    IF ~value.ok THEN Fail
    ELSE array_item(s, Append(items, value.val), SkipWs(s, value.pos))

\* JSONDecoder.decode: blanks after the value, then the end of the text
decode(s, r) == IF r.ok /\ SkipWs(s, r.pos) = Len(s) + 1 THEN r ELSE Fail

\* json.loads(s): one value, blanks around it, nothing else
json_loads(s) == decode(s, scan_once(s, SkipWs(s, 1)))

-----------------------------------------------------------------------------
(* Extract JSON from the LLM output *)

NoSpan == [found |-> FALSE, first |-> 0, last |-> 0]

\* the last position >= i of s holding c, 0 when there is none
RECURSIVE LastIndexOf(_, _, _)
LastIndexOf(s, c, i) ==
    IF i > Len(s) THEN 0
    ELSE IF Char(s, i) = c /\ IndexOf(s, c, i + 1) = 0 THEN i
    ELSE LastIndexOf(s, c, i + 1)

\* re.search(r'\{.*\}', s, re.DOTALL): at the leftmost { the greedy .* runs to
\* the end of the text and backs up to the last }
RECURSIVE search_braces(_, _)
search_braces(s, i) ==
    IF i > Len(s) THEN NoSpan
    ELSE IF Char(s, i) = "{" /\ LastIndexOf(s, "}", i + 1) > 0
         THEN [found |-> TRUE, first |-> i, last |-> LastIndexOf(s, "}", i + 1)]
         ELSE search_braces(s, i + 1)

\* a non-greedy pattern \{.*?\}: the span ends at the first } after the {
RECURSIVE search_braces_lazy(_, _)
search_braces_lazy(s, i) ==
    IF i > Len(s) THEN NoSpan
    ELSE IF Char(s, i) = "{" /\ IndexOf(s, "}", i + 1) > 0
         THEN [found |-> TRUE, first |-> i, last |-> IndexOf(s, "}", i + 1)]
         ELSE search_braces_lazy(s, i + 1)

Raise(kind) == [ok |-> FALSE, val |-> JNull, err |-> kind]

Return(v) == [ok |-> TRUE, val |-> v, err |-> ""]

\* json.loads(match.group())
loads(r) == IF r.ok THEN Return(r.val) ELSE Raise("JSONDecodeError")

matched(raw, match) ==
    IF ~match.found THEN Raise("ValueError")      \* No JSON found in response
    ELSE loads(json_loads(Slice(raw, match.first, match.last)))

\* the span ended at the first } instead of the last
extract_json_lazy(raw) == matched(raw, search_braces_lazy(raw, 1))

extract_json(raw) == matched(raw, search_braces(raw, 1))

-----------------------------------------------------------------------------
(* The schema: validator.py, as pydantic v2 validates keyword arguments *)

INTENTS == {"COMPLAINT"}

DEPARTMENTS == {"SANITATION", "WATER", "ELECTRICITY", "ROADS", "PUBLIC_SAFETY", "OTHER"}

PRIORITIES == {"LOW", "MEDIUM", "HIGH"}

\* a float: the fraction n / d with d > 0
Frac(n, d) == [n |-> n, d |-> d]

FracLess(a, b) == a.n * b.d < b.n * a.d

FracLeq(a, b) == a.n * b.d <= b.n * a.d

CONFIDENCE_GE == Frac(0, 1)

CONFIDENCE_LE == Frac(1, 1)

NotFloat == [ok |-> FALSE, finite |-> FALSE, f |-> Frac(0, 1)]

Finite(n, d) == [ok |-> TRUE, finite |-> TRUE, f |-> Frac(n, d)]

NonFinite == [ok |-> TRUE, finite |-> FALSE, f |-> Frac(0, 1)]

\* A str as a float in lax mode: blanks around it dropped, then a sign, digits
\* and a decimal point (or inf, infinity, nan).  Exponents and underscores are
\* not modelled: the strings of this model are short decimals or words.
float_of_parts(neg, body, ie, fe) ==
    IF fe = Len(body) /\ ie + (IF fe > ie THEN fe - ie - 1 ELSE 0) >= 1
    THEN Finite((IF neg THEN -1 ELSE 1) * int(Slice(body, 1, ie) \o Slice(body, ie + 2, fe)),
                Pow10(IF fe > ie THEN fe - ie - 1 ELSE 0))
    ELSE NotFloat

float_of_digits(neg, body, ie) ==
    float_of_parts(neg, body, ie,
                   IF Slice(body, ie + 1, ie + 1) = "." THEN DigitRunEnd(body, ie + 2) ELSE ie)

float_of_body(neg, body) ==
    IF lower(body) \in {"inf", "infinity", "nan"} THEN NonFinite
    ELSE float_of_digits(neg, body, DigitRunEnd(body, 1))

float_of_trimmed(s) ==
    float_of_body(Slice(s, 1, 1) = "-",
                  IF Slice(s, 1, 1) \in {"-", "+"} THEN Tail(s) ELSE s)

str_as_float(str) == float_of_trimmed(strip(str))

\* The float field in lax mode (the default): an int or a float is taken as it
\* is, a str is parsed, a bool becomes 1.0 or 0.0, anything else is refused.
validate_float(v) ==
    CASE v.t = "num"       -> Finite(v.n, v.d)
      [] v.t = "nonfinite" -> NonFinite
      [] v.t = "str"       -> str_as_float(v.s)
      [] v.t = "bool"      -> Finite(IF v.b THEN 1 ELSE 0, 1)
      [] OTHER             -> NotFloat

\* Literal[...]: the value must be one of the strings
validate_literal(f, key, allowed) ==
    key \in DOMAIN f /\ f[key].t = "str" /\ f[key].s \in allowed

\* a field declared without its bounds: any finite float passes
in_range_unbounded(c) == c.ok /\ c.finite

\* Field(ge=0.0, le=1.0): a NaN or an infinity passes neither comparison
in_range(c) ==
    c.ok /\ c.finite /\ FracLeq(CONFIDENCE_GE, c.f) /\ FracLeq(c.f, CONFIDENCE_LE)

validate_confidence(f) ==
    "confidence" \in DOMAIN f /\ in_range(validate_float(f["confidence"]))

\* a validator that maps an unknown department to OTHER and skips the range
ClassificationResponse_lenient(data) ==
    IF data.t /= "obj" THEN Raise("TypeError")
    ELSE IF /\ validate_literal(data.f, "intent", INTENTS)
            /\ "department" \in DOMAIN data.f
            /\ validate_literal(data.f, "priority", PRIORITIES)
            /\ "confidence" \in DOMAIN data.f
            /\ validate_float(data.f["confidence"]).finite
         THEN Return([intent     |-> data.f["intent"].s,
                      department |-> IF validate_literal(data.f, "department", DEPARTMENTS)
                                     THEN data.f["department"].s ELSE "OTHER",
                      priority   |-> data.f["priority"].s,
                      confidence |-> validate_float(data.f["confidence"]).f])
         ELSE Raise("ValidationError")

\* ClassificationResponse(**json_data); keys the model does not declare are
\* ignored (extra = 'ignore' is the default)
ClassificationResponse(data) ==
    IF data.t /= "obj" THEN Raise("TypeError")
    ELSE IF /\ validate_literal(data.f, "intent", INTENTS)
            /\ validate_literal(data.f, "department", DEPARTMENTS)
            /\ validate_literal(data.f, "priority", PRIORITIES)
            /\ validate_confidence(data.f)
         THEN Return([intent     |-> data.f["intent"].s,
                      department |-> data.f["department"].s,
                      priority   |-> data.f["priority"].s,
                      confidence |-> validate_float(data.f["confidence"]).f])
         ELSE Raise("ValidationError")

\* validated.model_dump()
model_dump(v) ==
    [intent |-> v.intent, department |-> v.department,
     priority |-> v.priority, confidence |-> v.confidence]

-----------------------------------------------------------------------------
(* classify, one action per statement of its body *)

CONFIDENCE_FLOOR == Frac(6, 10)

FALLBACK ==
    [intent |-> "COMPLAINT", department |-> "OTHER",
     priority |-> "MEDIUM", confidence |-> Frac(5, 10)]

\* values of locals that are not bound yet
NoText == ""

NoJson == JNull

NoClassification ==
    [intent |-> "", department |-> "", priority |-> "", confidence |-> Frac(0, 1)]

NoError == ""

NoResponse == [kind |-> "none"]

\* what call_ollama can do: raise (the request fails, times out, the status is
\* not a success, the body has no "response"), or return the completion
GATEWAY_ERRORS == {"ConnectionError", "Timeout", "HTTPError", "KeyError"}

\* clean_text = sanitize_input(text)
Sanitize ==
    /\ pc = "sanitize"
    /\ clean_text' = sanitize_input(text)
    /\ pc' = "call"
    /\ UNCHANGED <<text, raw_output, json_data, validated, before, result,
                   error, log, response>>

\* raw_output = call_ollama(full_prompt), the completion being one of `raws`
CallOllama(raws) ==
    /\ pc = "call"
    /\ \/ \E e \in GATEWAY_ERRORS :
             /\ error' = e
             /\ pc' = "except"
             /\ UNCHANGED raw_output
       \/ \E raw \in raws :
             /\ raw_output' = raw
             /\ pc' = "extract"
             /\ UNCHANGED error
    /\ UNCHANGED <<text, clean_text, json_data, validated, before, result,
                   log, response>>

Extracted(r) ==
    IF r.ok
    THEN json_data' = r.val /\ pc' = "validate" /\ UNCHANGED error
    ELSE error' = r.err /\ pc' = "except" /\ UNCHANGED json_data

\* json_data = extract_json(raw_output)
Extract ==
    /\ pc = "extract"
    /\ Extracted(extract_json(raw_output))
    /\ UNCHANGED <<text, clean_text, raw_output, validated, before, result,
                   log, response>>

Constructed(r) ==
    IF r.ok
    THEN validated' = r.val /\ pc' = "floor" /\ UNCHANGED error
    ELSE error' = r.err /\ pc' = "except" /\ UNCHANGED validated

\* validated = ClassificationResponse(**json_data)
Validate ==
    /\ pc = "validate"
    /\ Constructed(ClassificationResponse(json_data))
    /\ UNCHANGED <<text, clean_text, raw_output, json_data, before, result,
                   log, response>>

\* the floor applied at 0.6 too
confidence_floor_inclusive(v) ==
    IF FracLeq(v.confidence, CONFIDENCE_FLOOR)
    THEN [v EXCEPT !.department = "OTHER"]
    ELSE v

\* if validated.confidence < 0.6: validated.department = "OTHER"
confidence_floor(v) ==
    IF FracLess(v.confidence, CONFIDENCE_FLOOR)
    THEN [v EXCEPT !.department = "OTHER"]
    ELSE v

Floor ==
    /\ pc = "floor"
    /\ validated' = confidence_floor(validated)
    /\ pc' = "override"
    /\ UNCHANGED <<text, clean_text, raw_output, json_data, before, result,
                   error, log, response>>

Overridden(r) == validated' = r.val /\ log' = log \o r.lines

\* validated = apply_overrides(clean_text, validated)
Override ==
    /\ pc = "override"
    /\ Overridden(apply_overrides(clean_text, validated))
    /\ before' = validated
    /\ pc' = "dump"
    /\ UNCHANGED <<text, clean_text, raw_output, json_data, result, error, response>>

\* return validated.model_dump()
Dump ==
    /\ pc = "dump"
    /\ result' = model_dump(validated)
    /\ pc' = "return"
    /\ UNCHANGED <<text, clean_text, raw_output, json_data, validated, before,
                   error, log, response>>

\* the fallback passed through the overrides
except_handler_with_overrides(t, e) ==
    [val   |-> apply_overrides(t, FALLBACK).val,
     lines |-> <<[line |-> "Classifier Error", error |-> e]>>]

\* except Exception as e: print, return the safe fallback
except_handler(t, e) ==
    [val   |-> FALLBACK,
     lines |-> <<[line |-> "Classifier Error", error |-> e]>>]

Handled(r) == result' = r.val /\ log' = log \o r.lines

Except ==
    /\ pc = "except"
    /\ Handled(except_handler(clean_text, error))
    /\ pc' = "return"
    /\ UNCHANGED <<text, clean_text, raw_output, json_data, validated, before,
                   error, response>>

-----------------------------------------------------------------------------
(* The HTTP handlers of main.py *)

\* GET /health
health ==
    /\ pc = "idle"
    /\ response' = [kind |-> "health", status |-> "ok"]
    /\ UNCHANGED <<pc, text, clean_text, raw_output, json_data, validated,
                   before, result, error, log>>

\* POST /classify: classify(request.text) is entered with fresh locals
classify_complaint(texts) ==
    /\ pc = "idle"
    /\ \E t \in texts : text' = t
    /\ pc' = "sanitize"
    /\ clean_text' = NoText
    /\ raw_output' = NoText
    /\ json_data' = NoJson
    /\ validated' = NoClassification
    /\ before' = NoClassification
    /\ result' = NoClassification
    /\ error' = NoError
    /\ log' = <<>>
    /\ response' = NoResponse

\* classify has returned: print the result and send it as the response
Respond ==
    /\ pc = "return"
    /\ log' = Append(log, [line |-> "Classification result", result |-> result])
    /\ response' = [kind |-> "classification", body |-> result]
    /\ pc' = "idle"
    /\ UNCHANGED <<text, clean_text, raw_output, json_data, validated, before,
                   result, error>>

-----------------------------------------------------------------------------
(* Inputs *)

\* the texts made of at most n fragments of F
RECURSIVE TextsUpTo(_, _)
TextsUpTo(F, n) ==
    IF n = 0 THEN {""}
    ELSE LET shorter == TextsUpTo(F, n - 1)
         IN  shorter \cup {t \o f : t \in shorter, f \in F}

\* s repeated n times
RECURSIVE Repeat(_, _)
Repeat(s, n) ==
    IF n = 0 THEN ""
    ELSE LET half == Repeat(s, n \div 2)
         IN  IF n % 2 = 0 THEN half \o half ELSE half \o half \o s

Q(s) == "\"" \o s \o "\""

Member(k, v) == IF v = "" THEN <<>> ELSE <<Q(k) \o ": " \o v>>

RECURSIVE Join(_)
Join(members) ==
    IF members = <<>> THEN ""
    ELSE IF Len(members) = 1 THEN members[1]
    ELSE members[1] \o ", " \o Join(Tail(members))

\* The text of a JSON object with the four fields; a field given as "" is left out.
ObjectText(i, d, p, c) ==
    "{" \o Join(Member("intent", i) \o Member("department", d)
                \o Member("priority", p) \o Member("confidence", c)) \o "}"

\* Complaints of the HTTP requests
MaxRequestFrags == 2

REQUEST_FRAGS == {"Transformer ", "garbage", "live wire", " 5 days", "  "}

RequestTexts == TextsUpTo(REQUEST_FRAGS, MaxRequestFrags)

\* Completions of the model behind the gateway
CompliantCompletions ==
    {ObjectText(Q("COMPLAINT"), Q(d), Q(p), c) :
        d \in DEPARTMENTS, p \in PRIORITIES, c \in {"0.59", "0.6", "1"}}

OtherCompletions ==
    {"",
     "I cannot classify this complaint.",
     "JSON:\n" \o ObjectText(Q("COMPLAINT"), Q("ROADS"), Q("LOW"), "0.8") \o "\n-- end",
     "Result: " \o ObjectText(Q("COMPLAINT"), Q("WATER"), Q("LOW"), "0.9") \o " (see {rules})",
     "} {",
     ObjectText(Q("COMPLAINT"), Q("PARKS"), Q("LOW"), "0.9"),
     ObjectText(Q("COMPLAINT"), Q("SANITATION | WATER"), Q("HIGH"), "0.9"),
     ObjectText(Q("QUERY"), Q("WATER"), Q("LOW"), "0.9"),
     ObjectText(Q("COMPLAINT"), Q("WATER"), "", "0.9"),
     ObjectText(Q("COMPLAINT"), Q("WATER"), Q("LOW"), "1.5"),
     ObjectText(Q("COMPLAINT"), Q("WATER"), Q("LOW"), "NaN"),
     ObjectText(Q("COMPLAINT"), Q("WATER"), Q("LOW"), Q("0.59")),
     ObjectText(Q("COMPLAINT"), Q("ROADS"), Q("MEDIUM"), "true"),
     ObjectText(Q("COMPLAINT"), Q("ROADS"), Q("MEDIUM"), "0.7, \"note\": [1, {}]")}

Completions == CompliantCompletions \cup OtherCompletions

\* Completions made of pieces, for extract_json
MaxRawFrags == 3

RAW_FRAGS ==
    {"{", "}", "\"a\": 1", ", ", "Sure:\n", "{\"b\": [true, null]}", " 2.50 "}

PiecedCompletions == TextsUpTo(RAW_FRAGS, MaxRawFrags)

\* Completions that are one JSON object, for the schema
INTENT_TEXTS == {"", Q("COMPLAINT"), Q("complaint"), "1", "null"}

DEPARTMENT_TEXTS ==
    {"", Q("WATER"), Q("OTHER"), Q("PARKS"), Q("water"), Q("SANITATION | WATER"),
     "[\"WATER\"]"}

PRIORITY_TEXTS == {"", Q("LOW"), Q("HIGH"), Q("URGENT"), "2"}

CONFIDENCE_TEXTS ==
    {"", "0.59", "0.6", "0", "1", "1.0", "1.01", "-0.01", "-0.0", "2", "6e-1",
     Q("0.7"), Q(" 0.59"), Q("1.5"), Q("high"), Q(""), Q("nan"),
     "true", "false", "null", "NaN", "Infinity", "[0.9]"}

ObjectCompletions ==
    {ObjectText(i, d, p, c) :
        i \in INTENT_TEXTS, d \in DEPARTMENT_TEXTS,
        p \in PRIORITY_TEXTS, c \in CONFIDENCE_TEXTS}

\* Texts for the override rules
MaxOverrideFrags == 2

OVERRIDE_FRAGS ==
    {"transformer", "Street Light", "garbage", "no water", "pothole", "theft",
     "live wire", "FIRE", "2 days", "5 days", " 5 Days ", "4day", "3\n days",
     "1", " "}

OverrideTexts == TextsUpTo(OVERRIDE_FRAGS, MaxOverrideFrags)

ValidResponses ==
    {[intent |-> "COMPLAINT", department |-> d, priority |-> p,
      confidence |-> Frac(9, 10)] : d \in DEPARTMENTS, p \in PRIORITIES}

\* Texts around the length limit for sanitize_input: blanks, a run of letters
\* of a length near MAX_CHARS, blanks or letters, then more letters and blanks
MaxPad == 2

BLANKS == {"", " ", "\n\t"}

PadLengths == 0..MaxPad

LongTexts ==
    {lead \o Repeat("a", MAX_CHARS - k) \o mid \o Repeat("b", j) \o trail :
        lead \in BLANKS, k \in PadLengths, mid \in BLANKS \cup {"c"},
        j \in PadLengths, trail \in BLANKS}
    \cup
    {lead \o Repeat("a", k) \o trail : lead \in BLANKS, k \in PadLengths, trail \in BLANKS}

-----------------------------------------------------------------------------
(* Specifications *)

Locals(p, t, c, raw, v) ==
    /\ pc = p
    /\ text = t
    /\ clean_text = c
    /\ raw_output = raw
    /\ json_data = NoJson
    /\ validated = v
    /\ before = NoClassification
    /\ result = NoClassification
    /\ error = NoError
    /\ log = <<>>
    /\ response = NoResponse

\* The service: requests arrive one after the other
Init == Locals("idle", NoText, NoText, NoText, NoClassification)

Next ==
    \/ health
    \/ classify_complaint(RequestTexts)
    \/ Sanitize
    \/ CallOllama(Completions)
    \/ Extract
    \/ Validate
    \/ Floor
    \/ Override
    \/ Dump
    \/ Except
    \/ Respond

Spec == Init /\ [][Next]_vars

\* sanitize_input on texts around the length limit
InitSanitize == \E t \in LongTexts : Locals("sanitize", t, NoText, NoText, NoClassification)

NextSanitize == Sanitize

SpecSanitize == InitSanitize /\ [][NextSanitize]_vars

\* classify from the gateway's completion on
InitResponse ==
    \E raw \in PiecedCompletions \cup ObjectCompletions, t \in {"", "garbage 5 days"} :
        Locals("extract", t, t, raw, NoClassification)

NextResponse ==
    \/ Extract
    \/ Validate
    \/ Floor
    \/ Override
    \/ Dump
    \/ Except

SpecResponse == InitResponse /\ [][NextResponse]_vars

\* apply_overrides, applied twice in a row to a valid ClassificationResponse
ApplyOverrides ==
    /\ pc \in {"apply", "apply again"}
    /\ Overridden(apply_overrides(clean_text, validated))
    /\ before' = validated
    /\ pc' = IF pc = "apply" THEN "apply again" ELSE "applied"
    /\ UNCHANGED <<text, clean_text, raw_output, json_data, result, error, response>>

InitOverride ==
    \E t \in OverrideTexts, v \in ValidResponses : Locals("apply", t, t, NoText, v)

NextOverride == ApplyOverrides

SpecOverride == InitOverride /\ [][NextOverride]_vars

-----------------------------------------------------------------------------
(* Properties of classify: the returned value *)

WellFormed(r) ==
    /\ r.intent = "COMPLAINT"
    /\ r.department \in {"SANITATION", "WATER", "ELECTRICITY", "ROADS", "PUBLIC_SAFETY", "OTHER"}
    /\ r.priority \in {"LOW", "MEDIUM", "HIGH"}
    /\ r.confidence.d > 0
    /\ 0 <= r.confidence.n
    /\ r.confidence.n <= r.confidence.d

Returned == pc = "return"

Failed == error /= NoError

\* C1: whatever the text and whatever the gateway does (it raises, or returns
\* any completion), the value classify returns, and the body of the response
\* made of it, has intent COMPLAINT, a department and a priority of the
\* enumerations and a confidence in [0, 1], although the confidence floor and
\* the overrides assign fields after the validation.
C1_ResultWellFormed ==
    /\ Returned => WellFormed(result)
    /\ response.kind = "classification" => WellFormed(response.body)

\* a validated completion whose department and priority were both reassigned
\* after the validation has been returned
C1_Witness ==
    /\ Returned
    /\ ~Failed
    /\ json_data.f["department"].s /= result.department
    /\ json_data.f["priority"].s /= result.priority

OverrideLines ==
    {k \in 1..Len(log) : log[k].line \in {"Department changed", "Priority changed"}}

\* C2: when the gateway call, the extraction or the validation has failed,
\* classify returns (nothing is raised to the caller) exactly the fallback
\* COMPLAINT / OTHER / MEDIUM / 0.5, and the overrides were not applied to it,
\* whatever keywords the text holds.
C2_FallbackOnFailure ==
    /\ Returned /\ (Failed \/ ~extract_json(raw_output).ok
                          \/ ~ClassificationResponse(extract_json(raw_output).val).ok)
          => /\ result = [intent |-> "COMPLAINT", department |-> "OTHER",
                          priority |-> "MEDIUM", confidence |-> Frac(5, 10)]
             /\ OverrideLines = {}
    /\ pc = "except" => Failed
    /\ Failed => pc \in {"except", "return", "idle"}

\* a failed classification of a text with an electricity keyword and a hazard
\* keyword has returned
C2_Witness ==
    /\ Returned
    /\ Failed
    /\ Contains(lower(clean_text), "transformer")
    /\ Contains(lower(clean_text), "live wire")
    /\ result.department = "OTHER"
    /\ result.priority = "MEDIUM"

\* what the model predicted, as validated
Predicted == ClassificationResponse(json_data).val

GroupMatches(t) ==
    \/ AnyWordIn(lower(t), ELECTRICITY_WORDS)
    \/ AnyWordIn(lower(t), SANITATION_WORDS)
    \/ AnyWordIn(lower(t), WATER_WORDS)
    \/ AnyWordIn(lower(t), ROADS_WORDS)
    \/ AnyWordIn(lower(t), PUBLIC_SAFETY_WORDS)

\* C5: the confidence floor runs after the validation and before the
\* overrides.  What is handed to the overrides has the department OTHER when
\* the validated confidence is below 0.6 and the predicted department when it
\* is 0.6 or more, and the predicted priority and confidence in both cases; a
\* result of low confidence is returned with the department OTHER unless a
\* keyword group matches the text.
C5_FloorBeforeOverrides ==
    /\ pc = "override" =>
          /\ validated.department =
                IF Predicted.confidence.n * 10 < 6 * Predicted.confidence.d
                THEN "OTHER" ELSE Predicted.department
          /\ validated.priority = Predicted.priority
          /\ validated.confidence = Predicted.confidence
          /\ validated.intent = Predicted.intent
    /\ pc = "floor" => validated = Predicted
    /\ Returned /\ ~Failed /\ ~GroupMatches(clean_text)
         /\ Predicted.confidence.n * 10 < 6 * Predicted.confidence.d
          => result.department = "OTHER"

\* a prediction of confidence 0.59 with a department other than OTHER is handed
\* to the overrides as OTHER
C5_Witness ==
    /\ pc = "override"
    /\ Predicted.confidence = Frac(59, 100)
    /\ Predicted.department = "WATER"
    /\ validated.department = "OTHER"

\* a prediction of confidence exactly 0.6 keeps its department
C5_WitnessAtFloor ==
    /\ pc = "override"
    /\ Predicted.confidence = Frac(6, 10)
    /\ Predicted.department = "WATER"
    /\ validated.department = "WATER"

-----------------------------------------------------------------------------
(* Properties of the override rules *)

\* the first application of the overrides has been made: `before` holds the
\* prediction, `validated` what the overrides made of it
Applied == pc = "apply again"

GROUPS ==
    <<[department |-> "ELECTRICITY",   words |-> ELECTRICITY_WORDS],
      [department |-> "SANITATION",    words |-> SANITATION_WORDS],
      [department |-> "WATER",         words |-> WATER_WORDS],
      [department |-> "ROADS",         words |-> ROADS_WORDS],
      [department |-> "PUBLIC_SAFETY", words |-> PUBLIC_SAFETY_WORDS]>>

\* the groups with a keyword that is a substring of the lowercased text
MatchingGroups(t) ==
    {g \in 1..Len(GROUPS) :
        \E k \in 1..Len(GROUPS[g].words) : Contains(lower(t), GROUPS[g].words[k])}

SetMin(S) == CHOOSE x \in S : \A y \in S : x <= y

SetMax(S) == CHOOSE x \in S : \A y \in S : x >= y

\* C3: the department after the overrides is that of the first group, in the
\* order electricity, sanitation, water, roads, public safety, with a keyword
\* occurring in the lowercased text, whatever was predicted, and the predicted
\* department when no group matches; a text with both transformer and garbage
\* gives ELECTRICITY.
C3_FirstGroupWins ==
    Applied =>
       /\ validated.department =
             IF MatchingGroups(clean_text) = {} THEN before.department
             ELSE GROUPS[SetMin(MatchingGroups(clean_text))].department
       /\ Contains(lower(clean_text), "transformer") /\ Contains(lower(clean_text), "garbage")
             => validated.department = "ELECTRICITY"

\* a text with garbage before transformer, predicted WATER, became ELECTRICITY
C3_Witness ==
    /\ Applied
    /\ clean_text = "garbagetransformer"
    /\ before.department = "WATER"
    /\ validated.department = "ELECTRICITY"

HAZARDS == {"electric shock", "live wire", "fire", "accident", "collapse"}

HasHazard(t) == \E w \in HAZARDS : Contains(lower(t), w)

\* the positions of s that the word day follows
DayEnds(s) == {k \in 1..Len(s) : Slice(s, k + 1, k + 3) = "day"}

\* s[i..j] is a run of digits, s[j+1..k] a run of blanks, and day follows
IsDayMatch(s, i, j, k) ==
    /\ i <= j
    /\ j <= k
    /\ k \in DayEnds(s)
    /\ \A q \in i..j : IsDigit(Char(s, q))
    /\ \A q \in (j + 1)..k : IsSpace(Char(s, q))

StartsBefore(s, ends) ==
    {i \in 1..Len(s) :
        IsDigit(Char(s, i)) /\ \E k \in ends : \E j \in i..k : IsDayMatch(s, i, j, k)}

\* the positions where an occurrence of the pattern <integer> day starts
DayMatchStarts(s) == StartsBefore(s, DayEnds(s))

\* the integer of the first occurrence: the longest run of digits from the
\* leftmost start that is followed by blanks and day
DaysFrom(s, i) ==
    int(Slice(s, i, SetMax({j \in i..Len(s) :
                               IsDigit(Char(s, j)) /\ \E k \in j..Len(s) : IsDayMatch(s, i, j, k)})))

FirstDays(starts, s) == IF starts = {} THEN -1 ELSE DaysFrom(s, SetMin(starts))

LongDurationIn(s) == FirstDays(DayMatchStarts(s), s) >= 4

LongDuration(t) == LongDurationIn(lower(t))

Rank(p) == CASE p = "LOW" -> 1 [] p = "MEDIUM" -> 2 [] p = "HIGH" -> 3

\* C4: the priority after the overrides is HIGH when the text (letters of
\* either case) has a hazard keyword, whatever was predicted; otherwise HIGH
\* exactly when the first occurrence of <integer> day has an integer of 4 or
\* more, later mentions being ignored; in every other case the predicted
\* priority.  The priority is never lowered.
C4_PriorityOverride ==
    Applied =>
       /\ validated.priority =
             IF HasHazard(clean_text) THEN "HIGH"
             ELSE IF LongDuration(clean_text) THEN "HIGH"
             ELSE before.priority
       /\ Rank(validated.priority) >= Rank(before.priority)

\* a text whose first mention is 2 days and whose second is 5 days keeps LOW
C4_Witness ==
    /\ Applied
    /\ clean_text = "2 days5 days"
    /\ before.priority = "LOW"
    /\ validated.priority = "LOW"

\* a hazard keyword in capitals raises a predicted LOW to HIGH
C4_WitnessHazard ==
    /\ Applied
    /\ clean_text = "FIRE2 days"
    /\ before.priority = "LOW"
    /\ validated.priority = "HIGH"

\* C6 as stated: every text containing 5 days gives HIGH, and every text
\* containing 2 days leaves the predicted priority as it was.
C6_AsStated ==
    Applied =>
       /\ Contains(lower(clean_text), "5 days") => validated.priority = "HIGH"
       /\ Contains(lower(clean_text), "2 days") => validated.priority = before.priority

\* the first occurrence of <integer> day in the lowercased text starts the
\* given mention
MentionAt(starts, s, mention) ==
    starts /= {} /\ Slice(s, SetMin(starts), SetMin(starts) + Len(mention) - 1) = mention

FirstMentionIn(s, mention) == MentionAt(DayMatchStarts(s), s, mention)

FirstMentionIs(t, mention) == FirstMentionIn(lower(t), mention)

\* C6, amended: a text whose first occurrence of <integer> day is a mention
\* 5 days gives HIGH; a text without hazard keyword whose first occurrence of
\* <integer> day is a mention 2 days (the 2 not being the end of a longer
\* number) leaves the predicted priority as it was, for every predicted
\* priority.
C6_FirstMentionDecides ==
    Applied =>
       /\ FirstMentionIs(clean_text, "5 days") => validated.priority = "HIGH"
       /\ FirstMentionIs(clean_text, "2 days") /\ ~HasHazard(clean_text)
             => validated.priority = before.priority

\* 5 days first and 2 days second: HIGH from a predicted LOW
C6_Witness ==
    /\ Applied
    /\ clean_text = "5 days2 days"
    /\ before.priority = "LOW"
    /\ validated.priority = "HIGH"

\* 2 days first, predicted MEDIUM, no hazard keyword: MEDIUM is kept
C6_WitnessShort ==
    /\ Applied
    /\ clean_text = "2 days 5 Days "
    /\ before.priority = "MEDIUM"
    /\ validated.priority = "MEDIUM"

\* C7: applying the overrides to what the overrides returned changes none of
\* intent, department, priority and confidence, and prints no line.
C7_Idempotent ==
    [][Applied => validated' = validated /\ log' = log]_vars

\* the first application changed the department and the priority (two lines)
\* and the second application has been made
C7_Witness ==
    /\ pc = "applied"
    /\ Len(log) = 2
    /\ validated = before

-----------------------------------------------------------------------------
(* Properties of sanitize_input *)

Sanitized == pc = "call"

\* the first and the last position of t holding a character that is no blank
FirstNonBlank(t) ==
    CHOOSE i \in 1..Len(t) :
        ~IsSpace(Char(t, i)) /\ \A q \in 1..(i - 1) : IsSpace(Char(t, q))

LastNonBlank(t) ==
    CHOOSE i \in 1..Len(t) :
        ~IsSpace(Char(t, Len(t) + 1 - i)) /\ \A q \in 1..(i - 1) : IsSpace(Char(t, Len(t) + 1 - q))

AllBlank(t) == \A i \in 1..Len(t) : IsSpace(Char(t, i))

\* t without its leading and trailing blanks
Trimmed(t) ==
    IF AllBlank(t) THEN "" ELSE Slice(t, FirstNonBlank(t), Len(t) + 1 - LastNonBlank(t))

NoLeadingBlank(c) == c = "" \/ ~IsSpace(Char(c, 1))

NoTrailingBlank(c) == c = "" \/ ~IsSpace(Char(c, Len(c)))

\* C8 as stated: an input of more than 1000 characters gives a text of
\* exactly 1000 characters, the first 1000 of the trimmed input; every result
\* has no leading and no trailing blank and at most 1000 characters.
C8_AsStated ==
    Sanitized =>
       /\ Len(text) > 1000 =>
             Len(clean_text) = 1000 /\ clean_text = Slice(Trimmed(text), 1, 1000)
       /\ NoLeadingBlank(clean_text)
       /\ NoTrailingBlank(clean_text)
       /\ Len(clean_text) <= 1000

\* C8, amended: the result is the first 1000 characters of the trimmed input
\* (all of it when it is shorter); its length is exactly 1000 when the
\* trimmed input has more than 1000 characters and at most 1000 always; it
\* has no leading blank, and no trailing blank when the trimmed input has at
\* most 1000 characters.
C8_TrimThenCut ==
    Sanitized =>
       /\ clean_text = Slice(Trimmed(text), 1, 1000)
       /\ Len(Trimmed(text)) > 1000 => Len(clean_text) = 1000
       /\ Len(Trimmed(text)) <= 1000 => clean_text = Trimmed(text) /\ NoTrailingBlank(clean_text)
       /\ NoLeadingBlank(clean_text)
       /\ Len(clean_text) <= 1000

\* an input with a leading blank is cut at a blank: the result has 1000
\* characters and ends with a blank
C8_Witness ==
    /\ Sanitized
    /\ Len(clean_text) = 1000
    /\ Len(Trimmed(text)) > 1000
    /\ IsSpace(Char(text, 1))
    /\ IsSpace(Char(clean_text, 1000))

\* an input of more than 1000 characters gives fewer than 1000
C8_WitnessShort ==
    /\ Sanitized
    /\ Len(text) > 1000
    /\ Len(clean_text) < 1000

-----------------------------------------------------------------------------
(* Properties of extract_json and of the schema *)

Extraction == pc /= "extract"

Opens(raw) == {i \in 1..Len(raw) : Char(raw, i) = "{"}

ClosesAfter(raw, i) == {j \in (i + 1)..Len(raw) : Char(raw, j) = "}"}

\* the text has a { followed, somewhere later, by a }
HasSpan(raw) == Opens(raw) /= {} /\ ClosesAfter(raw, SetMin(Opens(raw))) /= {}

\* from the first { to the last } of the text
SpanFrom(raw, first) == Slice(raw, first, SetMax(ClosesAfter(raw, first)))

Span(raw) == SpanFrom(raw, SetMin(Opens(raw)))

ParsedAs(r) ==
    IF r.ok
    THEN json_data = r.val /\ error \notin {"ValueError", "JSONDecodeError"}
    ELSE json_data = NoJson /\ error = "JSONDecodeError"

\* C9: extract_json parses exactly the text from the first { to the last }
\* of the completion, inner braces and newlines included, as it stands; it
\* fails with the extraction error (ValueError) when no { is followed by a },
\* and with the parse error (JSONDecodeError) when that span is not JSON,
\* whatever smaller objects the text holds.
C9_FirstToLastBrace ==
    Extraction =>
       IF HasSpan(raw_output)
       THEN ParsedAs(json_loads(Span(raw_output)))
       ELSE json_data = NoJson /\ error = "ValueError"

\* the parse error on a completion that holds a smaller object that is JSON
C9_Witness ==
    /\ pc = "except"
    /\ error = "JSONDecodeError"
    /\ extract_json_lazy(raw_output).ok

\* the extraction error on a completion whose only } comes before its {
C9_WitnessNoSpan ==
    /\ pc = "except"
    /\ error = "ValueError"
    /\ Opens(raw_output) /= {}
    /\ Contains(raw_output, "}")

Schema == pc \notin {"extract", "validate"} /\ json_data.t = "obj"

Accepted == Schema /\ ~Failed

HasLiteral(f, key, allowed) ==
    key \in DOMAIN f /\ f[key].t = "str" /\ f[key].s \in allowed

Literals(f) ==
    /\ HasLiteral(f, "intent", {"COMPLAINT"})
    /\ HasLiteral(f, "department",
                  {"SANITATION", "WATER", "ELECTRICITY", "ROADS", "PUBLIC_SAFETY", "OTHER"})
    /\ HasLiteral(f, "priority", {"LOW", "MEDIUM", "HIGH"})

InUnitInterval(n, d) == 0 <= n /\ n <= d

\* C10 as stated: the validation fails when a field is missing, has the wrong
\* type (a confidence that is a string or a boolean and not a number), is
\* outside its enumeration or its range; no value is coerced.
C10_AsStated ==
    Accepted =>
       /\ Literals(json_data.f)
       /\ "confidence" \in DOMAIN json_data.f
       /\ json_data.f["confidence"].t = "num"
       /\ InUnitInterval(json_data.f["confidence"].n, json_data.f["confidence"].d)

\* the confidence the schema reads from a JSON value: a number as it is, a
\* boolean as 1.0 or 0.0, a string holding a decimal number as that number
ReadsAsConfidence(c) ==
    CASE c.t = "num"  -> InUnitInterval(c.n, c.d)
      [] c.t = "bool" -> TRUE
      [] c.t = "str"  -> /\ str_as_float(c.s).ok
                         /\ str_as_float(c.s).finite
                         /\ InUnitInterval(str_as_float(c.s).f.n, str_as_float(c.s).f.d)
      [] OTHER        -> FALSE

ConfidenceRead(c) ==
    CASE c.t = "num"  -> Frac(c.n, c.d)
      [] c.t = "bool" -> Frac(IF c.b THEN 1 ELSE 0, 1)
      [] c.t = "str"  -> str_as_float(c.s).f

SameNumber(a, b) == a.n * b.d = b.n * a.d

\* C10, amended: the validation fails, and classify returns the fallback,
\* when a field is missing, when intent, department or priority is no string
\* of its enumeration (a department outside it is refused, never mapped to
\* OTHER), and when the confidence is null, a list, an object, a string that
\* is no decimal number, not finite, or outside [0, 1].  A confidence given as
\* a boolean or as a string holding a decimal number is coerced to a float
\* (true to 1.0, "0.7" to 0.7) and accepted when it lies in [0, 1]; the other
\* fields are taken as they are.
C10_LaxConfidence ==
    Schema =>
       /\ ~Failed <=> /\ Literals(json_data.f)
                      /\ "confidence" \in DOMAIN json_data.f
                      /\ ReadsAsConfidence(json_data.f["confidence"])
       /\ Failed /\ pc = "return" => result = FALLBACK
       /\ ~Failed /\ pc = "floor" =>
             /\ validated.intent = json_data.f["intent"].s
             /\ validated.department = json_data.f["department"].s
             /\ validated.priority = json_data.f["priority"].s
             /\ SameNumber(validated.confidence, ConfidenceRead(json_data.f["confidence"]))

\* a confidence given as the string "0.7" has been accepted as 0.7
C10_Witness ==
    /\ pc = "floor"
    /\ json_data.f["confidence"] = JStr("0.7")
    /\ validated.confidence = Frac(7, 10)

\* a department outside the enumeration has been refused and the fallback returned
C10_WitnessRefused ==
    /\ pc = "return"
    /\ json_data.t = "obj"
    /\ "department" \in DOMAIN json_data.f
    /\ json_data.f["department"] = JStr("PARKS")
    /\ error = "ValidationError"
    /\ result = FALLBACK

=============================================================================
